---------------------------- MODULE Spec2Model ----------------------------
(***************************************************************************)
(* A model of the imagemagick-agent: the command validator, the output     *)
(* path sanitizer and the executor (executor.py), the agent orchestrator   *)
(* and its conversation history (agent.py), and the two front ends that    *)
(* drive them, the CLI loop (cli.py) and the web interface                 *)
(* (gradio_app.py).                                                        *)
(*                                                                         *)
(* Text is modelled as a sequence of one-character strings, so that        *)
(* splitting on whitespace, substring search, lower-casing and replacement *)
(* are computed as Python computes them.                                   *)
(***************************************************************************)
EXTENDS Integers, Sequences, FiniteSets, TLC

VARIABLES
    ui,                   \* which front end runs: "cli", "web", or "none"
    max_history,          \* settings.max_history
    auto_execute,         \* settings.auto_execute
    conversation_history, \* ImageMagickAgent.conversation_history
    working_image,        \* FileStorage: the current working image
    original_upload,      \* FileStorage.original_upload
    pending_output,       \* FileStorage.pending_output
    last_uploaded_path,   \* GradioInterface.last_uploaded_path
    command,              \* the argument of the function under test
    result,               \* what the last process_request returned
    validation,           \* what the last validate_command returned
    exec_result,          \* what the last execute returned
    spawned,              \* the command line handed to subprocess.run
    calls,                \* what the last handler invoked (history variable)
    appended,             \* the turns handed to _add_to_history (history variable)
    returned,             \* what the function under test returned
    audit,                \* what subprocess.run did and the calls of the injected
                          \* execution logger (history variable)
    installed,            \* the binaries shutil.which finds on the host
    executor,             \* the CommandExecutor: whether its construction went
                          \* through, and its imagemagick_command
    llm_provider,         \* settings.llm_provider
    chat,                 \* GoogleClient.chat: the turns its chat session holds
    context,              \* the messages the provider was sent by the last
                          \* generate_command (history variable)
    client,               \* the browser clients connected to the web interface
                          \* and the one whose event was served last
    log_files             \* logs/llm_calls.jsonl and logs/executions.jsonl

vars == <<ui, max_history, auto_execute, conversation_history, working_image,
          original_upload, pending_output, last_uploaded_path, command,
          result, validation, exec_result, spawned, calls, appended, returned, audit,
          installed, executor, llm_provider, chat, context, client, log_files>>

-----------------------------------------------------------------------------
(* Bounds of the model *)

\* the longest command of the function specification, in tokens
MaxTokens == 3
\* the largest configured settings.max_history
MaxHistorySetting == 2
\* handlers stop being scheduled once the history holds this many turns
MaxTurns == 4
\* the most lines the two log files hold together
MaxLogLines == 3
\* requests stop being scheduled once the Google chat session would hold more
\* turns than this
MaxChatTurns == 6

-----------------------------------------------------------------------------
(* Python values *)

\* str.split() and str.strip() treat these as whitespace
Whitespace == {" ", "\t"}

-----------------------------------------------------------------------------
(* Text operations, as Python's str computes them *)

\* s[i:] (0-based i)
Drop(s, n) == SubSeq(s, n + 1, Len(s))

\* s[:n]
Take(s, n) == SubSeq(s, 1, IF n < Len(s) THEN n ELSE Len(s))

\* s.startswith(p)
StartsWith(s, p) == Len(p) <= Len(s) /\ Take(s, Len(p)) = p

\* sub in s
Contains(s, sub) ==
    \E i \in 0..(Len(s) - Len(sub)) : SubSeq(s, i + 1, i + Len(sub)) = sub

\* s.lstrip()
RECURSIVE LStrip(_)
LStrip(s) ==
    IF s # <<>> /\ Head(s) \in Whitespace THEN LStrip(Tail(s)) ELSE s

\* s.rstrip()
RECURSIVE RStrip(_)
RStrip(s) ==
    IF s # <<>> /\ s[Len(s)] \in Whitespace THEN RStrip(Take(s, Len(s) - 1)) ELSE s

\* s.strip()
Strip(s) == RStrip(LStrip(s))

\* s.split(): the maximal runs of non-whitespace characters, in order
RECURSIVE SplitFrom(_, _, _)
SplitFrom(s, cur, acc) ==
    IF s = <<>>
    THEN IF cur = <<>> THEN acc ELSE Append(acc, cur)
    ELSE IF Head(s) \in Whitespace
         THEN SplitFrom(Tail(s), <<>>, IF cur = <<>> THEN acc ELSE Append(acc, cur))
         ELSE SplitFrom(Tail(s), Append(cur, Head(s)), acc)

Split(s) == SplitFrom(s, <<>>, <<>>)

\* " ".join(parts)
RECURSIVE Join(_)
Join(parts) ==
    IF parts = <<>> THEN <<>>
    ELSE IF Len(parts) = 1 THEN parts[1]
    ELSE parts[1] \o <<" ">> \o Join(Tail(parts))

\* s.replace(old, new) for a non-empty old: left to right, non-overlapping
RECURSIVE Replace(_, _, _)
Replace(s, old, new) ==
    IF Len(s) < Len(old) THEN s
    ELSE IF StartsWith(s, old)
         THEN new \o Replace(Drop(s, Len(old)), old, new)
         ELSE <<Head(s)>> \o Replace(Tail(s), old, new)

UpperCase == <<"A","B","C","D","E","F","G","H","I","J","K","L","M",
               "N","O","P","Q","R","S","T","U","V","W","X","Y","Z">>

LowerCase == <<"a","b","c","d","e","f","g","h","i","j","k","l","m",
               "n","o","p","q","r","s","t","u","v","w","x","y","z">>

LowerChar(c) ==
    IF \E i \in 1..26 : UpperCase[i] = c
    THEN LowerCase[CHOOSE i \in 1..26 : UpperCase[i] = c]
    ELSE c

\* s.lower()
Lower(s) == [i \in 1..Len(s) |-> LowerChar(s[i])]

\* the components of a path: split on "/", empty and "." components dropped
RECURSIVE PathParts(_, _, _)
PathParts(s, cur, acc) ==
    LET keep(c, a) == IF c = <<>> \/ c = <<".">> THEN a ELSE Append(a, c)
    IN IF s = <<>> THEN keep(cur, acc)
       ELSE IF Head(s) = "/"
            THEN PathParts(Tail(s), <<>>, keep(cur, acc))
            ELSE PathParts(Tail(s), Append(cur, Head(s)), acc)

\* Path(s).name: the final component, "" when there is none
PathName(s) ==
    LET ps == PathParts(s, <<>>, <<>>)
    IN IF ps = <<>> THEN <<>> ELSE ps[Len(ps)]

\* str(Path(s)) for a single component s: Path("") is the current directory
PathOf(s) == IF s = <<>> THEN <<".">> ELSE s

-----------------------------------------------------------------------------
(* executor.py: the validator *)

\* Python's None where a str or a Path is expected: it is no text, since its
\* one element is not a character
NoneText == <<"None">>

\* the allowed set with one more entry
ALLOWED_COMMANDS_with_rm ==
    { <<"m","a","g","i","c","k">>,
      <<"c","o","n","v","e","r","t">>,
      <<"i","d","e","n","t","i","f","y">>,
      <<"m","o","g","r","i","f","y">>,
      <<"c","o","m","p","o","s","i","t","e">>,
      <<"r","m">> }

ALLOWED_COMMANDS ==
    { <<"m","a","g","i","c","k">>,
      <<"c","o","n","v","e","r","t">>,
      <<"i","d","e","n","t","i","f","y">>,
      <<"m","o","g","r","i","f","y">>,
      <<"c","o","m","p","o","s","i","t","e">> }

\* the dangerous options without -write
DANGEROUS_OPTIONS_without_write ==
    { <<"-","s","c","r","i","p","t">>,
      <<"@">> }

DANGEROUS_OPTIONS ==
    { <<"-","s","c","r","i","p","t">>,
      <<"-","w","r","i","t","e">>,
      <<"@">> }

\* the backquote character, which a TLA+ string literal cannot hold
Backquote == "<backquote>"

\* the metacharacters without the dollar sign
ShellMetacharacters_without_dollar == {";", "|", "&", Backquote}

ShellMetacharacters == {";", "|", "&", "$", Backquote}

\* A reason: the message validate_command returns beside is_valid.
\*   "Empty command"
\*   "Command '<token>' is not allowed. Use: <allowed>"
\*   "Dangerous option detected: <token>"
\*   "Shell metacharacters not allowed"
Reason(kind, token, allowed) == [kind |-> kind, token |-> token, allowed |-> allowed]

NoReason == Reason("None", <<>>, {})

\* the dangerous options that are a substring of part
DangerousIn(part) == {d \in DANGEROUS_OPTIONS : Contains(part, d)}

\* any(char in command for char in [";", "|", "&", "$", backquote])
HasShellMetacharacter(cmd) == \E i \in 1..Len(cmd) : cmd[i] \in ShellMetacharacters

\* validate_command looking for shell metacharacters before it looks for
\* dangerous options
validate_command_metacharacters_first(cmd) ==
    LET parts == Split(Strip(cmd))
        bad   == {i \in 1..Len(parts) : DangerousIn(parts[i]) # {}}
        first == CHOOSE i \in bad : \A j \in bad : i <= j
    IN IF parts = <<>>
       THEN {[is_valid |-> FALSE, reason |-> Reason("Empty command", <<>>, {})]}
       ELSE IF parts[1] \notin ALLOWED_COMMANDS
       THEN {[is_valid |-> FALSE,
              reason |-> Reason("not allowed", parts[1], ALLOWED_COMMANDS)]}
       ELSE IF HasShellMetacharacter(cmd)
       THEN {[is_valid |-> FALSE,
              reason |-> Reason("Shell metacharacters not allowed", <<>>, {})]}
       ELSE IF bad # {}
       THEN {[is_valid |-> FALSE, reason |-> Reason("Dangerous option detected", d, {})] :
                d \in DangerousIn(parts[first])}
       ELSE {[is_valid |-> TRUE, reason |-> NoReason]}

\* validate_command(command): the set of (is_valid, error_message) pairs it can
\* return.  The set holds more than one pair only when the first offending token
\* contains several dangerous options: DANGEROUS_OPTIONS is a Python set, and
\* the order in which the loop visits it decides which one is reported.
validate_command(cmd) ==
    LET parts == Split(Strip(cmd))
        bad   == {i \in 1..Len(parts) : DangerousIn(parts[i]) # {}}
        first == CHOOSE i \in bad : \A j \in bad : i <= j
    IN IF parts = <<>>
       THEN {[is_valid |-> FALSE, reason |-> Reason("Empty command", <<>>, {})]}
       ELSE IF parts[1] \notin ALLOWED_COMMANDS
       THEN {[is_valid |-> FALSE,
              reason |-> Reason("not allowed", parts[1], ALLOWED_COMMANDS)]}
       ELSE IF bad # {}
       THEN {[is_valid |-> FALSE, reason |-> Reason("Dangerous option detected", d, {})] :
                d \in DangerousIn(parts[first])}
       ELSE IF HasShellMetacharacter(cmd)
       THEN {[is_valid |-> FALSE,
              reason |-> Reason("Shell metacharacters not allowed", <<>>, {})]}
       ELSE {[is_valid |-> TRUE, reason |-> NoReason]}

\* validate_command was not called
NoValidation == [is_valid |-> FALSE, reason |-> Reason("not called", <<>>, {})]

-----------------------------------------------------------------------------
(* executor.py: the output path sanitizer and the output file heuristic *)

\* the test both scans apply to a token
IsOutputToken(parts, part) ==
    /\ ~StartsWith(part, <<"-">>)
    /\ part # parts[1]
    /\ Contains(part, <<".">>)

\* the scan going on, past a token that qualifies but carries no directory,
\* to the next token that qualifies and carries one
SanitizeScan_seeking_directory(parts, i) ==
    LET q == {k \in 2..i : IsOutputToken(parts, parts[k]) /\ parts[k] # PathName(parts[k])}
    IN IF q = {} THEN parts
       ELSE LET k == CHOOSE k \in q : \A n \in q : n <= k
            IN [parts EXCEPT ![k] = PathName(parts[k])]

\* for i in range(len(parts) - 1, 0, -1): ... break
\* (i is the 1-based position; position 1, the subcommand, is not visited)
RECURSIVE SanitizeScan(_, _)
SanitizeScan(parts, i) ==
    IF i < 2 THEN parts
    ELSE IF IsOutputToken(parts, parts[i])
         THEN IF parts[i] # PathName(parts[i])
              THEN [parts EXCEPT ![i] = PathName(parts[i])]
              ELSE parts
         ELSE SanitizeScan(parts, i - 1)

\* the output forced into the current directory by way of the shell
sanitize_output_path_to_cwd(cmd) ==
    LET parts == Split(cmd)
        q     == {k \in 2..Len(parts) : IsOutputToken(parts, parts[k])}
    IN IF q = {} THEN Join(parts)
       ELSE LET k == CHOOSE k \in q : \A n \in q : n <= k
            IN Join([parts EXCEPT ![k] = <<"$","P","W","D","/">> \o PathName(parts[k])])

\* the directory stripped from every token that qualifies
sanitize_output_path_every_token(cmd) ==
    LET parts == Split(cmd)
    IN Join([k \in 1..Len(parts) |->
               IF k >= 2 /\ IsOutputToken(parts, parts[k])
               THEN PathName(parts[k]) ELSE parts[k]])

sanitize_output_path(cmd) ==
    LET parts == Split(cmd)
    IN Join(SanitizeScan(parts, Len(parts)))

\* the token returned with its directory
ExtractScan_keeping_directory(parts, i) ==
    LET q == {k \in 1..i : IsOutputToken(parts, parts[k])}
    IN IF q = {} THEN NoneText ELSE parts[CHOOSE k \in q : \A n \in q : n <= k]

\* for part in reversed(parts): ... return Path(output_path.name)
RECURSIVE ExtractScan(_, _)
ExtractScan(parts, i) ==
    IF i < 1 THEN NoneText
    ELSE IF IsOutputToken(parts, parts[i])
         THEN PathOf(PathName(parts[i]))
         ELSE ExtractScan(parts, i - 1)

extract_output_file(cmd) ==
    LET parts == Split(cmd)
    IN ExtractScan(parts, Len(parts))

-----------------------------------------------------------------------------
(* executor.py: execute *)

\* what subprocess.run can do with a command line
Outcomes ==
    { [kind |-> "exit", returncode |-> 0],
      [kind |-> "exit", returncode |-> 1],
      [kind |-> "timeout", returncode |-> 0],
      [kind |-> "error", returncode |-> 0] }

\* the text a subprocess wrote, and the text of a launch failure (str(e))
CapturedStdout == <<"<stdout>">>
CapturedStderr == <<"<stderr>">>
LaunchError    == <<"<OSError>">>

\* the error message without the exit code
Message_without_code(text, reason, code, detail) ==
    [text |-> text, reason |-> reason, code |-> 0, detail |-> detail]

\* An error_message of an ExecutionResult:
\*   "Command validation failed: <reason>"
\*   "Command failed with exit code <code>"
\*   "Command timed out after 30 seconds"
\*   "Execution error: <detail>"
Message(text, reason, code, detail) ==
    [text |-> text, reason |-> reason, code |-> code, detail |-> detail]

NoMessage == Message("None", NoReason, 0, <<>>)

ExecutionResult(success, cmd, stdout, stderr, output_file, error_message) ==
    [success |-> success, command |-> cmd, stdout |-> stdout, stderr |-> stderr,
     output_file |-> output_file, error_message |-> error_message]

\* execute was not called
NoExecution == ExecutionResult(FALSE, NoneText, <<>>, <<>>, NoneText, NoMessage)

\* execute without its validation gate: the command is spawned whatever
\* validate_command returned
execute_ungated(cmd, v, outcome) ==
    LET sanitized_command == sanitize_output_path(cmd)
    IN [spawned |-> sanitized_command,
        result |-> ExecutionResult(outcome.kind = "exit" /\ outcome.returncode = 0,
                                   sanitized_command, CapturedStdout, CapturedStderr,
                                   extract_output_file(sanitized_command), NoMessage)]

\* execute(command), given what validate_command returned for the sanitized
\* command and what the subprocess did: the ExecutionResult it returns and the
\* command line it handed to subprocess.run (NoneText: none)
execute(cmd, v, outcome) ==
    LET sanitized_command == sanitize_output_path(cmd)
        output_file       == extract_output_file(sanitized_command)
    IN IF ~v.is_valid
       THEN [result |-> ExecutionResult(FALSE, sanitized_command, <<>>, <<>>, NoneText,
                            Message("Command validation failed", v.reason, 0, <<>>)),
             spawned |-> NoneText]
       ELSE [spawned |-> sanitized_command,
             result |->
               CASE outcome.kind = "exit" /\ outcome.returncode = 0 ->
                      ExecutionResult(TRUE, sanitized_command, CapturedStdout,
                                      CapturedStderr, output_file, NoMessage)
                 [] outcome.kind = "exit" /\ outcome.returncode # 0 ->
                      ExecutionResult(FALSE, sanitized_command, CapturedStdout,
                                      CapturedStderr, NoneText,
                                      Message("Command failed with exit code", NoReason,
                                              outcome.returncode, <<>>))
                 [] outcome.kind = "timeout" ->
                      ExecutionResult(FALSE, sanitized_command, <<>>, <<>>, NoneText,
                                      Message("Command timed out after 30 seconds",
                                              NoReason, 0, <<>>))
                 [] OTHER ->
                      ExecutionResult(FALSE, sanitized_command, <<>>, <<>>, NoneText,
                                      Message("Execution error", NoReason, 0, LaunchError))]

-----------------------------------------------------------------------------
(* What a handler invoked: a history variable that the program does not hold *)

\* generate_command was not called
NoLLMCall ==
    [called |-> FALSE, message |-> <<>>, history |-> <<>>, raised |-> FALSE, reply |-> <<>>]

\* generate_command(message, history) was called, and raised or returned reply
LLMCall(message, history, llm) ==
    [called |-> TRUE, message |-> message, history |-> history,
     raised |-> llm.raises, reply |-> llm.reply]

\* op: the handler that ran last; validated: the arguments of its
\* validate_command calls, in order; executed: the arguments of its
\* execute calls; confirm: what the user answered to "Execute this command?"
\* ("not asked" when the question was not put); llm: its generate_command
\* call, with the history as it was handed over
Calls(op, validated, executed, confirm, llm) ==
    [op |-> op, validated |-> validated, executed |-> executed,
     confirm |-> confirm, llm |-> llm]

NoCalls == Calls("none", <<>>, <<>>, "not asked", NoLLMCall)

\* process_request was not called
NoResult ==
    [command |-> NoneText, needs_confirmation |-> FALSE,
     error |-> [text |-> "absent", reason |-> NoReason, detail |-> <<>>],
     clarification |-> <<"absent">>]

\* a call of the execution logger: log_validation or log_execution, and
\* whether it raised
LogCall(method, raised) == [method |-> method, raised |-> raised]

\* logged: the calls of the execution logger, in order; raised: whether execute
\* raised instead of returning; outcome: what subprocess.run did
Audit(logged, raised, outcome) == [logged |-> logged, raised |-> raised, outcome |-> outcome]

\* no logger was injected (execution_logger=None)
NoAudit == Audit(<<>>, FALSE, [kind |-> "none", returncode |-> 0])

-----------------------------------------------------------------------------
(* executor.py: the construction of a CommandExecutor *)

\* the binaries the detection asks shutil.which for
Binaries == {"magick", "convert"}

\* the detection asking for convert first
detect_imagemagick_command_convert_first(found) ==
    IF "convert" \in found THEN [raised |-> "None", value |-> "convert"]
    ELSE IF "magick" \in found THEN [raised |-> "None", value |-> "magick"]
    ELSE [raised |-> "RuntimeError: ImageMagick is not installed", value |-> "None"]

\* _detect_imagemagick_command(), on a host where shutil.which finds the
\* binaries of found: the name it returns, or the error it raises
detect_imagemagick_command(found) ==
    IF "magick" \in found THEN [raised |-> "None", value |-> "magick"]
    ELSE IF "convert" \in found THEN [raised |-> "None", value |-> "convert"]
    ELSE [raised |-> "RuntimeError: ImageMagick is not installed", value |-> "None"]

\* no CommandExecutor() call was made yet
NotConstructed ==
    [state |-> "none", imagemagick_command |-> "None", raised |-> "None", found |-> {}]

\* CommandExecutor(): __init__ runs the detection, and fails with what the
\* detection raises.  found remembers what was installed at that moment
\* (a history field).
CommandExecutor(found) ==
    LET detected == detect_imagemagick_command(found)
    IN [state |-> IF detected.raised = "None" THEN "constructed" ELSE "failed",
        imagemagick_command |-> detected.value,
        raised |-> detected.raised,
        found |-> found]

\* GoogleClient.chat is None: no chat session was started
NoChat == <<"None">>

\* generate_command was not called by the last handler
NoContext == <<"None">>

\* one user at the front end
OneClient == [connected |-> {1}, acting |-> 1]

\* the log files are absent or empty
NoLogFiles == [llm |-> <<>>, exec |-> <<>>]

-----------------------------------------------------------------------------
(* The functions of executor.py applied to one command, by an executor that *)
(* was constructed without an execution logger                              *)

\* the tokens commands are built from
Words ==
    ALLOWED_COMMANDS \cup
    { <<"r","m">>,
      <<"a",".","j","p","g">>,
      <<"o","/","b",".","p","n","g">>,
      <<"-","r","e","s","i","z","e">>,
      <<"-","s","c","r","i","p","t">>,
      <<"-","w","r","i","t","e">>,
      <<"x","@","y">> }

\* up to MaxTokens tokens, joined by single spaces
WordCommands ==
    {Join(ts) : ts \in UNION {[1..k -> Words] : k \in 0..MaxTokens}}

\* the characters inserted into a well-formed command, at every position
InsertedChars == {";", "|", "&", "$", Backquote, " ", "\t", "@", "/", ".", "-"}

BaseCommands ==
    { <<"m","a","g","i","c","k"," ","a",".","j","p","g"," ","o","/","b",".","p","n","g">>,
      <<"m","a","g","i","c","k"," ","-","r","e","s","i","z","e"," ","a",".","j","p","g">>,
      <<"m","a","g","i","c","k"," ","a",".","j","p","g"," ","-","w","r","i","t","e">>,
      <<"m","a","g","i","c","k"," ","o","/","a",".","j","p","g"," ","o","/","b",".","p","n","g">> }

InsertAt(s, n, c) == Take(s, n) \o <<c>> \o Drop(s, n)

InsertCommands ==
    UNION {{InsertAt(b, n, c) : n \in 0..Len(b), c \in InsertedChars} : b \in BaseCommands}

Commands == WordCommands \cup InsertCommands

InitFn ==
    /\ command \in Commands
    /\ ui = "none"
    /\ max_history = 0
    /\ auto_execute = FALSE
    /\ conversation_history = <<>>
    /\ working_image = NoneText
    /\ original_upload = NoneText
    /\ pending_output = NoneText
    /\ last_uploaded_path = NoneText
    /\ result = NoResult
    /\ validation = NoValidation
    /\ exec_result = NoExecution
    /\ spawned = NoneText
    /\ calls = NoCalls
    /\ appended = <<>>
    /\ returned = NoneText
    /\ audit = NoAudit
    /\ installed = {"magick"}
    /\ executor = CommandExecutor(installed)
    /\ llm_provider = "anthropic"
    /\ chat = NoChat
    /\ context = NoContext
    /\ client = OneClient
    /\ log_files = NoLogFiles

session_vars == <<ui, max_history, auto_execute, conversation_history, working_image,
                  original_upload, pending_output, last_uploaded_path, result, appended,
                  installed, executor, llm_provider, chat, context, client, log_files>>

\* validate_command(command)
Validate ==
    /\ calls.op = "none"
    /\ executor.state = "constructed"
    /\ \E v \in validate_command(command) :
          /\ validation' = v
          /\ calls' = Calls("validate_command", <<command>>, <<>>, "not asked", NoLLMCall)
    /\ UNCHANGED <<session_vars, command, exec_result, spawned, returned, audit>>

\* execute(command)
Execute ==
    /\ calls.op = "none"
    /\ executor.state = "constructed"
    /\ \E outcome \in Outcomes, sanitized \in {sanitize_output_path(command)} :
        \E v \in validate_command(sanitized) :
          \E r \in {execute(command, v, outcome)} :
             /\ validation' = v
             /\ exec_result' = r.result
             /\ spawned' = r.spawned
             /\ calls' = Calls("execute", <<sanitized>>, <<command>>, "not asked", NoLLMCall)
             /\ audit' = Audit(<<>>, FALSE, outcome)
    /\ UNCHANGED <<session_vars, command, returned>>

\* sanitize_output_path(command)
Sanitize ==
    /\ calls.op = "none"
    /\ executor.state = "constructed"
    /\ returned' = sanitize_output_path(command)
    /\ calls' = Calls("sanitize_output_path", <<>>, <<>>, "not asked", NoLLMCall)
    /\ UNCHANGED <<session_vars, command, validation, exec_result, spawned, audit>>

\* extract_output_file(command)
Extract ==
    /\ calls.op = "none"
    /\ executor.state = "constructed"
    /\ returned' = extract_output_file(command)
    /\ calls' = Calls("extract_output_file", <<>>, <<>>, "not asked", NoLLMCall)
    /\ UNCHANGED <<session_vars, command, validation, exec_result, spawned, audit>>

\* sanitize_output_path applied to what sanitize_output_path(command) returned
SanitizeTwice ==
    /\ calls.op = "none"
    /\ executor.state = "constructed"
    /\ returned' = sanitize_output_path(sanitize_output_path(command))
    /\ calls' = Calls("sanitize_output_path twice", <<>>, <<>>, "not asked", NoLLMCall)
    /\ UNCHANGED <<session_vars, command, validation, exec_result, spawned, audit>>

NextFn == Validate \/ Execute \/ Sanitize \/ Extract \/ SanitizeTwice

SpecFn == InitFn /\ [][NextFn]_vars

-----------------------------------------------------------------------------
(* Properties of the validator and of execute, for every command of Commands *)

\* the maximal runs of non-whitespace characters of s, by position
IsToken(s, i, j) ==
    /\ 1 <= i /\ i <= j /\ j <= Len(s)
    /\ \A k \in i..j : s[k] \notin {" ", "\t"}
    /\ (i = 1 \/ s[i - 1] \in {" ", "\t"})
    /\ (j = Len(s) \/ s[j + 1] \in {" ", "\t"})

IsFirstToken(s, i, j) ==
    IsToken(s, i, j) /\ \A k \in 1..(i - 1) : s[k] \in {" ", "\t"}

Validated == calls.op = "validate_command"

\* C1: a command that holds one of ; | & $ ` anywhere in the raw string, in
\* whatever token and with or without whitespace around it, is rejected by
\* validate_command.
C1_MetacharactersRejected ==
    (Validated /\ \E i \in 1..Len(command) : command[i] \in {";", "|", "&", "$", Backquote})
        => ~validation.is_valid

\* C1, witness: a command with an allowed subcommand and no dangerous option
\* whose first token carries a $ without whitespace around it was rejected for
\* the metacharacter.
C1_Witness ==
    /\ Validated
    /\ command = <<"m","a","g","i","c","k","$"," ","a",".","j","p","g"," ",
                   "o","/","b",".","p","n","g">>
    /\ ~validation.is_valid

\* C2: a non-empty command whose first whitespace-separated token is none of
\* magick, convert, identify, mogrify, composite is rejected by validate_command
\* with a reason that names that token and lists the allowed set.
C2_UnknownSubcommandRejected ==
    Validated =>
      \A i, j \in 1..Len(command) :
        ( /\ IsFirstToken(command, i, j)
          /\ SubSeq(command, i, j) \notin
                { <<"m","a","g","i","c","k">>, <<"c","o","n","v","e","r","t">>,
                  <<"i","d","e","n","t","i","f","y">>, <<"m","o","g","r","i","f","y">>,
                  <<"c","o","m","p","o","s","i","t","e">> } )
        => /\ ~validation.is_valid
           /\ validation.reason.kind = "not allowed"
           /\ validation.reason.token = SubSeq(command, i, j)
           /\ validation.reason.allowed =
                { <<"m","a","g","i","c","k">>, <<"c","o","n","v","e","r","t">>,
                  <<"i","d","e","n","t","i","f","y">>, <<"m","o","g","r","i","f","y">>,
                  <<"c","o","m","p","o","s","i","t","e">> }

\* C2, witness: "rm a.jpg -resize" was rejected, and the reason names rm.
C2_Witness ==
    /\ Validated
    /\ command = <<"r","m"," ","a",".","j","p","g"," ","-","r","e","s","i","z","e">>
    /\ ~validation.is_valid
    /\ validation.reason.token = <<"r","m">>

\* C3: a command in which some whitespace-separated token contains -script,
\* -write or @ as a substring, at any position of the token and the first token
\* included, is rejected by validate_command.
C3_DangerousOptionsRejected ==
    Validated =>
      \A i, j \in 1..Len(command) :
        ( /\ IsToken(command, i, j)
          /\ \E d \in { <<"-","s","c","r","i","p","t">>, <<"-","w","r","i","t","e">>, <<"@">> } :
                Contains(SubSeq(command, i, j), d) )
        => ~validation.is_valid

\* C3, witness: a command with an allowed subcommand whose last token holds
\* -write was rejected as dangerous.
C3_Witness ==
    /\ Validated
    /\ command = <<"m","a","g","i","c","k"," ","a",".","j","p","g"," ","-","w","r","i","t","e">>
    /\ ~validation.is_valid
    /\ validation.reason.kind = "Dangerous option detected"

\* C4: execute hands a command line to the subprocess only if validate_command
\* accepts it; when the sanitized command fails validate_command, execute spawns
\* nothing and returns success = False, empty stdout and stderr, no output file
\* and an error message that carries the validation reason.
C4_NoSpawnWithoutValidation ==
    calls.op = "execute" =>
        /\ spawned # NoneText => \E v \in validate_command(spawned) : v.is_valid
        /\ (\A v \in validate_command(sanitize_output_path(command)) : ~v.is_valid) =>
              /\ spawned = NoneText
              /\ ~exec_result.success
              /\ exec_result.stdout = <<>>
              /\ exec_result.stderr = <<>>
              /\ exec_result.output_file = NoneText
              /\ exec_result.error_message.text = "Command validation failed"
              /\ \E v \in validate_command(sanitize_output_path(command)) :
                    exec_result.error_message.reason = v.reason

\* C4, witness: execute was called with a command whose sanitized form holds a
\* metacharacter, and returned the validation failure.
C4_Witness ==
    /\ calls.op = "execute"
    /\ command = <<"m","a","g","i","c","k"," ","a",".","j","p","g",";"," ",
                   "o","/","b",".","p","n","g">>
    /\ spawned = NoneText
    /\ exec_result.command = <<"m","a","g","i","c","k"," ","a",".","j","p","g",";"," ",
                               "b",".","p","n","g">>
    /\ exec_result.error_message.reason.kind = "Shell metacharacters not allowed"

\* the first maximal run of non-whitespace characters of s (s holds one)
FirstTokenOf(s) ==
    LET start == CHOOSE i \in 1..Len(s) :
                    /\ s[i] \notin {" ", "\t"}
                    /\ \A k \in 1..(i - 1) : s[k] \in {" ", "\t"}
        stop  == CHOOSE j \in start..Len(s) :
                    /\ \A k \in start..j : s[k] \notin {" ", "\t"}
                    /\ (j = Len(s) \/ s[j + 1] \in {" ", "\t"})
    IN SubSeq(s, start, stop)

\* C23: validate_command reports the first check that fails, in the order
\* empty, allowed subcommand, dangerous substring, shell metacharacter: a
\* command with a dangerous option and a metacharacter is rejected for the
\* dangerous option, an allowed command whose only defect is a metacharacter
\* for the metacharacter; it accepts, with reason None, exactly when all four
\* checks pass.
C23_FirstFailingCheckReported ==
    Validated =>
        LET empty      == \A k \in 1..Len(command) : command[k] \in {" ", "\t"}
            disallowed ==
                FirstTokenOf(command) \notin
                    { <<"m","a","g","i","c","k">>, <<"c","o","n","v","e","r","t">>,
                      <<"i","d","e","n","t","i","f","y">>, <<"m","o","g","r","i","f","y">>,
                      <<"c","o","m","p","o","s","i","t","e">> }
            dangerous  ==
                \E d \in { <<"-","s","c","r","i","p","t">>, <<"-","w","r","i","t","e">>, <<"@">> } :
                    Contains(command, d)
            meta       ==
                \E k \in 1..Len(command) : command[k] \in {";", "|", "&", "$", Backquote}
        IN /\ validation.reason.kind =
                 ( IF empty THEN "Empty command"
                   ELSE IF disallowed THEN "not allowed"
                   ELSE IF dangerous THEN "Dangerous option detected"
                   ELSE IF meta THEN "Shell metacharacters not allowed"
                   ELSE "None" )
           /\ validation.is_valid <=> validation.reason.kind = "None"
           /\ validation.is_valid <=> ~(empty \/ disallowed \/ dangerous \/ meta)

\* C23, witness: "magick a.jpg $-write" holds a metacharacter and a dangerous
\* option, and was rejected for the dangerous option.
C23_Witness ==
    /\ Validated
    /\ command = <<"m","a","g","i","c","k"," ","a",".","j","p","g"," ",
                   "$","-","w","r","i","t","e">>
    /\ ~validation.is_valid
    /\ validation.reason.kind = "Dangerous option detected"
    /\ validation.reason.token = <<"-","w","r","i","t","e">>

\* a command all four checks of validate_command let through
PassesAllChecks(s) ==
    /\ \E k \in 1..Len(s) : s[k] \notin {" ", "\t"}
    /\ FirstTokenOf(s) \in
          { <<"m","a","g","i","c","k">>, <<"c","o","n","v","e","r","t">>,
            <<"i","d","e","n","t","i","f","y">>, <<"m","o","g","r","i","f","y">>,
            <<"c","o","m","p","o","s","i","t","e">> }
    /\ \A d \in { <<"-","s","c","r","i","p","t">>, <<"-","w","r","i","t","e">>, <<"@">> } :
          ~Contains(s, d)
    /\ \A k \in 1..Len(s) : s[k] \notin {";", "|", "&", "$", Backquote}

\* C26: a command that validate_command accepts as it stands is still
\* accepted after sanitize_output_path rewrote it: execute, which validates
\* the rewritten command, does not reject it and hands it to the subprocess.
C26_ValidStaysValidSanitized ==
    (calls.op = "execute" /\ PassesAllChecks(command)) =>
        /\ validation.is_valid
        /\ spawned # NoneText
        /\ PassesAllChecks(spawned)
        /\ exec_result.error_message.text # "Command validation failed"

\* C26, witness: "magick o/b.png o/b.png" is accepted as it stands; execute
\* rewrote its output token, validated the rewritten command and spawned it.
C26_Witness ==
    /\ calls.op = "execute"
    /\ command = <<"m","a","g","i","c","k"," ","o","/","b",".","p","n","g"," ",
                   "o","/","b",".","p","n","g">>
    /\ PassesAllChecks(command)
    /\ calls.validated = << <<"m","a","g","i","c","k"," ","o","/","b",".","p","n","g"," ",
                              "b",".","p","n","g">> >>
    /\ validation.is_valid
    /\ spawned = <<"m","a","g","i","c","k"," ","o","/","b",".","p","n","g"," ",
                   "b",".","p","n","g">>

\* the components of a path token, by position: the maximal runs without "/"
IsComponent(t, i, j) ==
    /\ 1 <= i /\ i <= j /\ j <= Len(t)
    /\ \A k \in i..j : t[k] # "/"
    /\ (i = 1 \/ t[i - 1] = "/")
    /\ (j = Len(t) \/ t[j + 1] = "/")

\* the final path segment of a token: its last component that is not "."
FinalSegment(t) ==
    LET cs == {c \in (1..Len(t)) \X (1..Len(t)) :
                  IsComponent(t, c[1], c[2]) /\ SubSeq(t, c[1], c[2]) # <<".">>}
    IN IF cs = {} THEN <<>>
       ELSE LET c == CHOOSE c \in cs : \A d \in cs : d[1] <= c[1]
            IN SubSeq(t, c[1], c[2])

\* the positions of the tokens that are not the subcommand, do not start with
\* "-" and contain a "."
Qualifying(parts) ==
    {i \in 1..Len(parts) :
        /\ parts[i][1] # "-"
        /\ parts[i] # parts[1]
        /\ \E k \in 1..Len(parts[i]) : parts[i][k] = "."}

Last(S) == CHOOSE i \in S : \A k \in S : k <= i

\* tokens separated by one space each, with no whitespace before or after
SingleSpaced(s) ==
    \A i \in 1..Len(s) :
        /\ s[i] # "\t"
        /\ s[i] = " " => (1 < i /\ i < Len(s) /\ s[i + 1] # " ")

HasDirectory(t) == \E k \in 1..Len(t) : t[k] = "/"

\* C13: sanitize_output_path picks, scanning the tokens from the right, the
\* first token that is not the subcommand, does not start with "-" and contains
\* a "."; it replaces that token by its final path segment and leaves every
\* other token, input files with directories included, as it was and where it
\* was; at most one token is rewritten.
C13_OneTokenRewritten ==
    calls.op = "sanitize_output_path" =>
        LET parts == Split(command)
            out   == Split(returned)
            q     == Qualifying(parts)
        IN /\ Len(out) = Len(parts)
           /\ \A i \in 1..Len(parts) :
                 out[i] = IF q # {} /\ i = Last(q) THEN FinalSegment(parts[i]) ELSE parts[i]
           /\ Cardinality({i \in 1..Len(parts) : out[i] # parts[i]}) <= 1

\* C13, witness: of two tokens that carry a directory only the last one was
\* rewritten.
C13_Witness ==
    /\ calls.op = "sanitize_output_path"
    /\ command = <<"m","a","g","i","c","k"," ","o","/","b",".","p","n","g"," ",
                   "o","/","b",".","p","n","g">>
    /\ returned = <<"m","a","g","i","c","k"," ","o","/","b",".","p","n","g"," ",
                    "b",".","p","n","g">>

\* C14, as the specification states it: sanitize_output_path returns the
\* identical string whenever no token qualifies as the output file or the
\* chosen token has no directory component.
C14_ReturnedUnchanged ==
    LET parts == Split(command)
        q     == Qualifying(parts)
    IN ( /\ calls.op = "sanitize_output_path"
         /\ (q = {} \/ ~HasDirectory(parts[Last(q)])) )
       => returned = command

\* C14, as the code has it: whenever no token qualifies as the output file or
\* the chosen token has no directory component, sanitize_output_path returns
\* the tokens of the command unchanged and in order, joined by single spaces;
\* this is the identical string only when the command was already written
\* that way.
C14_TokensReturnedUnchanged ==
    LET parts == Split(command)
        q     == Qualifying(parts)
    IN ( /\ calls.op = "sanitize_output_path"
         /\ (q = {} \/ ~HasDirectory(parts[Last(q)])) )
       => /\ Split(returned) = parts
          /\ SingleSpaced(returned)
          /\ SingleSpaced(command) => returned = command

\* C14, witness: a command with two spaces after the subcommand and an output
\* token without directory came back with one space.
C14_Witness ==
    /\ calls.op = "sanitize_output_path"
    /\ command = <<"m","a","g","i","c","k"," "," ","-","r","e","s","i","z","e"," ",
                   "a",".","j","p","g">>
    /\ returned = <<"m","a","g","i","c","k"," ","-","r","e","s","i","z","e"," ",
                    "a",".","j","p","g">>

\* C15: extract_output_file returns the final path segment of the last token
\* that is not the subcommand, does not start with "-" and contains a ".", and
\* None when no token qualifies; the token is the one sanitize_output_path
\* rewrites.
C15_LastQualifyingToken ==
    calls.op = "extract_output_file" =>
        LET parts == Split(command)
            q     == Qualifying(parts)
        IN IF q = {}
           THEN returned = NoneText
           ELSE /\ returned = FinalSegment(parts[Last(q)])
                /\ returned # NoneText
                /\ Split(sanitize_output_path(command))[Last(q)] = returned

\* C15, witness: the output token stands before an option and carries a
\* directory; its final segment was returned.
C15_Witness ==
    /\ calls.op = "extract_output_file"
    /\ command = <<"m","a","g","i","c","k"," ","o","/","b",".","p","n","g"," ",
                   "-","r","e","s","i","z","e">>
    /\ returned = <<"b",".","p","n","g">>

\* C27: sanitize_output_path is idempotent: applied to its own result it
\* returns that result, also when the file name it left begins with "-" or is
\* the subcommand, so that another token qualifies the second time.
C27_SanitizeIdempotent ==
    calls.op = "sanitize_output_path twice" =>
        returned = sanitize_output_path(command)

\* C16: for every command that passes sanitization and validation and whose
\* subprocess exits with code 0, execute returns success = True and an
\* output_file that is not None and equals the output token as
\* sanitize_output_path rewrote it.
C16_OutputFileOfSuccess ==
    ( /\ calls.op = "execute"
      /\ validation.is_valid
      /\ audit.outcome = [kind |-> "exit", returncode |-> 0] )
    => LET parts == Split(command)
           q     == Qualifying(parts)
       IN /\ exec_result.success
          /\ exec_result.output_file # NoneText
          /\ q # {}
          /\ exec_result.output_file = Split(sanitize_output_path(command))[Last(q)]

\* C17: for a validated command execute turns every outcome of the subprocess
\* into a result and does not raise: an exit code other than 0 gives
\* success = False, a message with the exit code and the captured stdout and
\* stderr; a timeout gives success = False, "timed out after 30 seconds" and
\* empty stdout and stderr; any other failure of the launch gives
\* success = False and the text of the error.
C17_OutcomesClassified ==
    (calls.op = "execute" /\ validation.is_valid) =>
        /\ ~audit.raised
        /\ exec_result.command = spawned
        /\ (audit.outcome.kind = "exit" /\ audit.outcome.returncode # 0) =>
              /\ ~exec_result.success
              /\ exec_result.error_message.text = "Command failed with exit code"
              /\ exec_result.error_message.code = audit.outcome.returncode
              /\ exec_result.stdout = <<"<stdout>">>
              /\ exec_result.stderr = <<"<stderr>">>
        /\ audit.outcome.kind = "timeout" =>
              /\ ~exec_result.success
              /\ exec_result.error_message.text = "Command timed out after 30 seconds"
              /\ exec_result.stdout = <<>>
              /\ exec_result.stderr = <<>>
        /\ audit.outcome.kind = "error" =>
              /\ ~exec_result.success
              /\ exec_result.error_message.text = "Execution error"
              /\ exec_result.error_message.detail = <<"<OSError>">>

\* C17, witness: a valid command whose subprocess exited with code 1.
C17_Witness ==
    /\ calls.op = "execute"
    /\ validation.is_valid
    /\ audit.outcome = [kind |-> "exit", returncode |-> 1]
    /\ spawned = <<"m","a","g","i","c","k"," ","a",".","j","p","g"," ","b",".","p","n","g">>
    /\ exec_result.error_message.code = 1
    /\ ~exec_result.success

-----------------------------------------------------------------------------
(* The construction of an executor on a host whose installed binaries change, *)
(* and a validate_command call of the executor constructed                    *)

InitDetect ==
    /\ command \in BaseCommands \cup InsertCommands
    /\ installed \in SUBSET Binaries
    /\ executor = NotConstructed
    /\ ui = "none"
    /\ max_history = 0
    /\ auto_execute = FALSE
    /\ conversation_history = <<>>
    /\ working_image = NoneText
    /\ original_upload = NoneText
    /\ pending_output = NoneText
    /\ last_uploaded_path = NoneText
    /\ result = NoResult
    /\ validation = NoValidation
    /\ exec_result = NoExecution
    /\ spawned = NoneText
    /\ calls = NoCalls
    /\ appended = <<>>
    /\ returned = NoneText
    /\ audit = NoAudit
    /\ llm_provider = "anthropic"
    /\ chat = NoChat
    /\ context = NoContext
    /\ client = OneClient
    /\ log_files = NoLogFiles

\* CommandExecutor()
Construct ==
    /\ executor.state = "none"
    /\ executor' = CommandExecutor(installed)
    /\ UNCHANGED <<ui, max_history, auto_execute, conversation_history, working_image,
                   original_upload, pending_output, last_uploaded_path, command, result,
                   validation, exec_result, spawned, calls, appended, returned, audit,
                   installed, llm_provider, chat, context, client, log_files>>

\* ImageMagick is installed, upgraded or removed on the host
HostChanges ==
    /\ \E found \in SUBSET Binaries :
          /\ found # installed
          /\ installed' = found
    /\ UNCHANGED <<ui, max_history, auto_execute, conversation_history, working_image,
                   original_upload, pending_output, last_uploaded_path, command, result,
                   validation, exec_result, spawned, calls, appended, returned, audit,
                   executor, llm_provider, chat, context, client, log_files>>

NextDetect == Construct \/ HostChanges \/ Validate

SpecDetect == InitDetect /\ [][NextDetect]_vars

\* C22: constructing a CommandExecutor selects magick whenever magick is
\* found, convert only when magick is absent and convert is found, and fails
\* with a RuntimeError saying ImageMagick is not installed when neither is
\* found; the detection runs once, at construction, and what it selected
\* stays whatever is installed or removed afterwards.
C22_DetectedOnceAtConstruction ==
    [][ /\ (executor.state = "none" /\ executor'.state # "none") =>
             /\ executor'.found = installed
             /\ executor'.imagemagick_command =
                   ( IF "magick" \in installed THEN "magick"
                     ELSE IF "convert" \in installed THEN "convert"
                     ELSE "None" )
             /\ executor'.state =
                   ( IF installed \cap {"magick", "convert"} = {} THEN "failed"
                     ELSE "constructed" )
             /\ executor'.raised =
                   ( IF installed \cap {"magick", "convert"} = {}
                     THEN "RuntimeError: ImageMagick is not installed"
                     ELSE "None" )
        /\ executor.state # "none" => executor' = executor
      ]_vars

\* C22, witness: the executor was constructed when magick and convert were
\* both found and selected magick; magick was removed afterwards, and the
\* executor, which validated a command since, still holds magick.
C22_Witness ==
    /\ executor.state = "constructed"
    /\ executor.found = {"magick", "convert"}
    /\ executor.imagemagick_command = "magick"
    /\ installed = {"convert"}
    /\ calls.op = "validate_command"

-----------------------------------------------------------------------------
(* execute by an executor that was constructed with an execution logger, *)
(* which may raise when it is called                                      *)

\* the injected logger: for each of its calls in turn, whether that call raises
\* (execute calls it three times at most)
LoggerBehaviours == [1..3 -> BOOLEAN]

\* str(e) of what the logger raised
LoggerError == <<"<LoggerError>">>

\* execute(command) with the logger calls of _log_validation and
\* _log_execution: what it returns (raised: it raised instead), the command
\* line handed to subprocess.run, and the logger calls made
execute_logged(cmd, v, outcome, fails) ==
    LET plain             == execute(cmd, v, outcome)
        sanitized_command == sanitize_output_path(cmd)
        log1 == LogCall("log_validation", fails[1])
        log2 == LogCall("log_execution", fails[2])
        log3 == LogCall("log_execution", fails[3])
        Raises(logged, line) ==
            [result |-> NoExecution, spawned |-> line, raised |-> TRUE, logged |-> logged]
        Returns(r, logged, line) ==
            [result |-> r, spawned |-> line, raised |-> FALSE, logged |-> logged]
    IN IF fails[1]
       THEN \* _log_validation is called by validate_command, outside any try
            Raises(<<log1>>, NoneText)
       ELSE IF ~v.is_valid
       THEN \* self._log_execution(result, 0), outside any try
            IF fails[2] THEN Raises(<<log1, log2>>, NoneText)
            ELSE Returns(plain.result, <<log1, log2>>, NoneText)
       ELSE IF outcome.kind = "exit"
       THEN \* _log_execution inside the try: what it raises is caught by
            \* "except Exception", whose handler logs once more
            IF ~fails[2] THEN Returns(plain.result, <<log1, log2>>, sanitized_command)
            ELSE IF fails[3] THEN Raises(<<log1, log2, log3>>, sanitized_command)
            ELSE Returns(ExecutionResult(FALSE, sanitized_command, <<>>, <<>>, NoneText,
                                         Message("Execution error", NoReason, 0, LoggerError)),
                         <<log1, log2, log3>>, sanitized_command)
       ELSE \* _log_execution inside the handler of the timeout or of the
            \* launch failure
            IF fails[2] THEN Raises(<<log1, log2>>, sanitized_command)
            ELSE Returns(plain.result, <<log1, log2>>, sanitized_command)

LogCommands == BaseCommands \cup InsertCommands

InitLog ==
    /\ command \in LogCommands
    /\ ui = "none"
    /\ max_history = 0
    /\ auto_execute = FALSE
    /\ conversation_history = <<>>
    /\ working_image = NoneText
    /\ original_upload = NoneText
    /\ pending_output = NoneText
    /\ last_uploaded_path = NoneText
    /\ result = NoResult
    /\ validation = NoValidation
    /\ exec_result = NoExecution
    /\ spawned = NoneText
    /\ calls = NoCalls
    /\ appended = <<>>
    /\ returned = NoneText
    /\ audit = NoAudit
    /\ installed = {"magick"}
    /\ executor = CommandExecutor(installed)
    /\ llm_provider = "anthropic"
    /\ chat = NoChat
    /\ context = NoContext
    /\ client = OneClient
    /\ log_files = NoLogFiles

\* execute(command)
ExecuteLogged ==
    /\ calls.op = "none"
    /\ executor.state = "constructed"
    /\ \E outcome \in Outcomes, fails \in LoggerBehaviours,
          sanitized \in {sanitize_output_path(command)} :
        \E v \in validate_command(sanitized) :
          \E r \in {execute_logged(command, v, outcome, fails)} :
             /\ validation' = (IF fails[1] THEN NoValidation ELSE v)
             /\ exec_result' = r.result
             /\ spawned' = r.spawned
             /\ calls' = Calls("execute", <<sanitized>>, <<command>>, "not asked", NoLLMCall)
             /\ audit' = Audit(r.logged, r.raised, outcome)
    /\ UNCHANGED <<session_vars, command, returned>>

NextLog == ExecuteLogged

SpecLog == InitLog /\ [][NextLog]_vars

\* C18: an exception of the audit logger during the logging of the validation
\* or of the execution neither aborts nor alters an execution: execute still
\* returns, without raising, the ExecutionResult (success, output_file and
\* error_message) it returns when the logger works.
C18_LoggerFailureHarmless ==
    (calls.op = "execute" /\ audit.logged # <<>>) =>
        /\ ~audit.raised
        /\ \E v \in validate_command(calls.validated[1]) :
              LET works == execute(command, v, audit.outcome).result
              IN /\ exec_result.success = works.success
                 /\ exec_result.output_file = works.output_file
                 /\ exec_result.error_message = works.error_message

-----------------------------------------------------------------------------
(* agent.py: the conversation history and process_request *)

Turn(role, content) == [role |-> role, content |-> content]

\* s[start:], with Python's reading of a negative start and of a start past the end
SliceFrom(s, start) ==
    LET from == IF start < 0
                THEN (IF Len(s) + start < 0 THEN 0 ELSE Len(s) + start)
                ELSE (IF start > Len(s) THEN Len(s) ELSE start)
    IN Drop(s, from)

\* _add_to_history(role, content) on history h
add_to_history(h, maxh, role, content) ==
    LET grown == Append(h, Turn(role, content))
    IN IF Len(grown) > maxh * 2
       THEN SliceFrom(grown, -(maxh * 2))
       ELSE grown

ClarificationIndicators ==
    { <<"?">>,
      <<"c","o","u","l","d"," ","y","o","u">>,
      <<"p","l","e","a","s","e"," ","s","p","e","c","i","f","y">>,
      <<"w","h","i","c","h">>,
      <<"w","h","a","t">>,
      <<"u","n","c","l","e","a","r">> }

\* the indicators sought in the reply as it is, without lower()
LooksLikeClarification_cased(reply) ==
    \E ind \in ClarificationIndicators : Contains(reply, ind)

\* any(indicator in command.lower() for indicator in [...])
LooksLikeClarification(reply) ==
    \E ind \in ClarificationIndicators : Contains(Lower(reply), ind)

\* the error entry without the validator's reason
Error_dropping_reason(text, reason, detail) ==
    [text |-> text, reason |-> [kind |-> "None", token |-> <<>>, allowed |-> {}],
     detail |-> detail]

\* the "error" entry of a process_request result
\*   "LLM error: <detail>"
\*   "Generated invalid command: <reason>"
Error(text, reason, detail) == [text |-> text, reason |-> reason, detail |-> detail]

NoError     == Error("None", NoReason, <<>>)
AbsentError == Error("absent", NoReason, <<>>)
AbsentText  == <<"absent">>

\* confirmation asked for whatever the settings say
NeedsConfirmation_always(auto) == TRUE

\* "needs_confirmation": not self.settings.auto_execute
NeedsConfirmation(auto) == ~auto

\* what generate_command does: it raises, or it returns a reply
LLMRaises == [raises |-> TRUE, reply |-> <<>>, detail |-> <<"<APIError>">>]
LLMReplies(reply) == [raises |-> FALSE, reply |-> reply, detail |-> <<>>]

\* process_request with the user turn appended before the call of the model
process_request_appending_first(h, maxh, auto, user_input, llm, v) ==
    LET h1 == add_to_history(h, maxh, "user", user_input)
        h2 == add_to_history(h1, maxh, "assistant", llm.reply)
    IN IF llm.raises
       THEN [result |-> [command |-> NoneText, needs_confirmation |-> FALSE,
                         error |-> Error("LLM error", NoReason, llm.detail),
                         clarification |-> AbsentText],
             history |-> h1,
             validated |-> <<>>]
       ELSE IF LooksLikeClarification(llm.reply)
       THEN [result |-> [command |-> NoneText, needs_confirmation |-> FALSE,
                         error |-> AbsentError, clarification |-> llm.reply],
             history |-> h2,
             validated |-> <<>>]
       ELSE IF ~v.is_valid
       THEN [result |-> [command |-> llm.reply, needs_confirmation |-> FALSE,
                         error |-> Error("Generated invalid command", v.reason, <<>>),
                         clarification |-> AbsentText],
             history |-> h2,
             validated |-> <<llm.reply>>]
       ELSE [result |-> [command |-> llm.reply, needs_confirmation |-> ~auto,
                         error |-> NoError, clarification |-> AbsentText],
             history |-> h2,
             validated |-> <<llm.reply>>]

\* process_request with the two turns appended only once the reply has been
\* classified as a command
process_request_appending_commands(h, maxh, auto, user_input, llm, v) ==
    LET h1 == add_to_history(h, maxh, "user", user_input)
        h2 == add_to_history(h1, maxh, "assistant", llm.reply)
    IN IF llm.raises
       THEN [result |-> [command |-> NoneText, needs_confirmation |-> FALSE,
                         error |-> Error("LLM error", NoReason, llm.detail),
                         clarification |-> AbsentText],
             history |-> h,
             validated |-> <<>>]
       ELSE IF LooksLikeClarification(llm.reply)
       THEN [result |-> [command |-> NoneText, needs_confirmation |-> FALSE,
                         error |-> AbsentError, clarification |-> llm.reply],
             history |-> h,
             validated |-> <<>>]
       ELSE IF ~v.is_valid
       THEN [result |-> [command |-> llm.reply, needs_confirmation |-> FALSE,
                         error |-> Error("Generated invalid command", v.reason, <<>>),
                         clarification |-> AbsentText],
             history |-> h2,
             validated |-> <<llm.reply>>]
       ELSE [result |-> [command |-> llm.reply, needs_confirmation |-> ~auto,
                         error |-> NoError, clarification |-> AbsentText],
             history |-> h2,
             validated |-> <<llm.reply>>]

\* process_request(user_input) on history h, given what generate_command did
\* and what validate_command returned for the reply: the dictionary returned,
\* the history afterwards, and the arguments of the validate_command call
process_request(h, maxh, auto, user_input, llm, v) ==
    IF llm.raises
    THEN [result |-> [command |-> NoneText, needs_confirmation |-> FALSE,
                      error |-> Error("LLM error", NoReason, llm.detail),
                      clarification |-> AbsentText],
          history |-> h,
          validated |-> <<>>]
    ELSE LET h1 == add_to_history(h, maxh, "user", user_input)
             h2 == add_to_history(h1, maxh, "assistant", llm.reply)
         IN IF LooksLikeClarification(llm.reply)
            THEN [result |-> [command |-> NoneText, needs_confirmation |-> FALSE,
                              error |-> AbsentError, clarification |-> llm.reply],
                  history |-> h2,
                  validated |-> <<>>]
            ELSE IF ~v.is_valid
            THEN [result |-> [command |-> llm.reply, needs_confirmation |-> FALSE,
                              error |-> Error("Generated invalid command", v.reason, <<>>),
                              clarification |-> AbsentText],
                  history |-> h2,
                  validated |-> <<llm.reply>>]
            ELSE [result |-> [command |-> llm.reply,
                              needs_confirmation |-> NeedsConfirmation(auto),
                              error |-> NoError, clarification |-> AbsentText],
                  history |-> h2,
                  validated |-> <<llm.reply>>]

\* reset_conversation()
reset_conversation == <<>>

-----------------------------------------------------------------------------
(* storage.py: FileStorage, the working image and the pending output *)

\* save_uploaded_file(path, original_name): the path the upload is saved under
SavedPath(uploaded) == <<"u","/">> \o PathName(uploaded)

\* get_current_working_image()
get_current_working_image(working) == working

\* has_pending_output()
has_pending_output(pending) == pending # NoneText

-----------------------------------------------------------------------------
(* gradio_app.py: the substitution of the working image into a command *)

Placeholders ==
    << <<"i","n","p","u","t",".","j","p","g">>,
       <<"i","n","p","u","t",".","p","n","g">>,
       <<"i","m","a","g","e",".","j","p","g">>,
       <<"i","m","a","g","e",".","p","n","g">> >>

\* for placeholder in [...]: working_command = working_command.replace(placeholder, ...)
RECURSIVE ReplacePlaceholders(_, _, _)
ReplacePlaceholders(cmd, i, working) ==
    IF i > Len(Placeholders) THEN cmd
    ELSE ReplacePlaceholders(Replace(cmd, Placeholders[i], working), i + 1, working)

\* if original_name in working_command: working_command = working_command.replace(...)
ReplaceIfIn(cmd, old, new) == IF Contains(cmd, old) THEN Replace(cmd, old, new) ELSE cmd

\* working_command, from the generated command, the working image and the
\* original upload
substitute_working_image(cmd, working, original) ==
    IF working = NoneText THEN cmd
    ELSE LET c1 == ReplacePlaceholders(cmd, 1, working)
             c2 == IF original # NoneText /\ working # original
                   THEN ReplaceIfIn(ReplaceIfIn(c1, PathName(original), working),
                                    original, working)
                   ELSE c1
         IN ReplaceIfIn(c2, PathName(working), working)

\* the context turn accept_result adds to the agent's history
ContextMessage(name) ==
    <<"[System: The current input image is now ">> \o name \o
    <<". All future commands will use this as the input.]">>

\* the text process_message adds to the message of a new upload
UploadMessage(message, name) ==
    message \o <<" ">> \o <<"(Image uploaded: ">> \o name \o <<")">>

-----------------------------------------------------------------------------
(* llm.py: the provider clients *)

Providers == {"anthropic", "openai", "google"}

\* get_system_prompt(imagemagick_command): the text is of no account here
SystemPrompt == <<"<system prompt>">>

\* a message as the Gemini chat session holds it
GeminiTurn(role, content) == [role |-> role, parts |-> <<content>>]

\* gemini_history: for msg in history: role = "user" if msg["role"] == "user"
\* else "model"; {"role": role, "parts": [msg["content"]]}
GeminiHistory(h) ==
    [i \in 1..Len(h) |->
        GeminiTurn(IF h[i].role = "user" THEN "user" ELSE "model", h[i].content)]

\* generate_command(user_message, history) of the client of provider, whose
\* Google chat session is session, when the provider does llm (raises, or
\* replies): the messages the provider is sent, the chat session afterwards,
\* and the history list afterwards.
\*   AnthropicClient: messages = history + [user]
\*   OpenAIClient:    messages = [system] + history; messages.append(user)
\*   GoogleClient:    if self.chat is None or len(history) == 0:
\*                        self.chat = self.model.start_chat(history=gemini_history)
\*                    self.chat.send_message(user_message)
\* send_message sends the turns the chat session holds and the new message,
\* and on success keeps the message and the reply in the session.
generate_command(provider, session, user_message, history, llm) ==
    CASE provider = "anthropic" ->
           [messages |-> history \o <<Turn("user", user_message)>>,
            chat |-> session, history |-> history]
      [] provider = "openai" ->
           [messages |-> <<Turn("system", SystemPrompt)>> \o history
                            \o <<Turn("user", user_message)>>,
            chat |-> session, history |-> history]
      [] OTHER ->
           LET started == IF session = NoChat \/ Len(history) = 0
                          THEN GeminiHistory(history) ELSE session
               sent    == Append(started, GeminiTurn("user", user_message))
           IN [messages |-> sent,
               chat |-> IF llm.raises THEN started
                        ELSE Append(sent, GeminiTurn("model", llm.reply)),
               history |-> history]

\* the provider client handling a request: what it leaves in chat and context
Generates(g) ==
    /\ g.chat = NoChat \/ Len(g.chat) <= MaxChatTurns
    /\ chat' = g.chat
    /\ context' = g.messages

-----------------------------------------------------------------------------
(* A session: one front end, its agent and its storage *)

\* what the user types: a request, or only whitespace
UserRequest == <<"g","o">>
BlankInput  == <<" ">>

\* the image the user uploads in the web interface
UploadedImage == <<"/","t","/","a",".","j","p","g">>

\* what the language model answers with
Replies ==
    { <<"m","a","g","i","c","k"," ","a",".","j","p","g"," ","o","/","b",".","p","n","g">>,
      <<"r","m"," ","a",".","j","p","g">>,
      <<"W","h","i","c","h"," ","s","i","z","e">> }

LLMOutcomes == {LLMRaises} \cup {LLMReplies(r) : r \in Replies}

Init ==
    /\ ui \in {"cli", "web"}
    /\ max_history \in 0..MaxHistorySetting
    /\ auto_execute \in BOOLEAN
    /\ conversation_history = <<>>
    /\ working_image = NoneText
    /\ original_upload = NoneText
    /\ pending_output = NoneText
    /\ last_uploaded_path = NoneText
    /\ command = NoneText
    /\ result = NoResult
    /\ validation = NoValidation
    /\ exec_result = NoExecution
    /\ spawned = NoneText
    /\ calls = NoCalls
    /\ appended = <<>>
    /\ returned = NoneText
    /\ audit = NoAudit
    /\ installed = {"magick"}
    /\ executor = CommandExecutor(installed)
    /\ llm_provider = "anthropic"
    /\ chat = NoChat
    /\ context = NoContext
    /\ client = OneClient
    /\ log_files = NoLogFiles

settings_vars == <<ui, max_history, auto_execute, llm_provider>>
host_vars     == <<installed, executor, log_files>>
storage_vars  == <<working_image, original_upload, pending_output>>

\* result.get("error") / result.get("clarification"): present and truthy
HasError(r) == r.error.text \notin {"None", "absent"}
HasClarification(r) == r.clarification # AbsentText /\ r.clarification # <<>>

\* the handlers that run no command leave these as they start
Idle(op) ==
    /\ result' = NoResult
    /\ validation' = NoValidation
    /\ exec_result' = NoExecution
    /\ spawned' = NoneText
    /\ calls' = Calls(op, <<>>, <<>>, "not asked", NoLLMCall)
    /\ context' = NoContext

\* agent.execute_command(cmd) after a process_request that returned pr: what
\* the handler leaves in validation, exec_result, spawned and calls
Executes(op, pr, cmd, confirm, call) ==
    \E outcome \in Outcomes, sanitized \in {sanitize_output_path(cmd)} :
      \E v2 \in validate_command(sanitized) :
        \E r \in {execute(cmd, v2, outcome)} :
          /\ validation' = v2
          /\ exec_result' = r.result
          /\ spawned' = r.spawned
          /\ calls' = Calls(op, pr.validated \o <<sanitized>>, <<cmd>>, confirm, call)

\* a process_request that returned pr and no execution after it
ExecutesNothing(op, pr, v, confirm, call) ==
    /\ validation' = (IF pr.validated = <<>> THEN NoValidation ELSE v)
    /\ exec_result' = NoExecution
    /\ spawned' = NoneText
    /\ calls' = Calls(op, pr.validated, <<>>, confirm, call)

\* what Confirm.ask("Execute this command?") can return; it is asked only when
\* the result needs confirmation
Answers(needs_confirmation) ==
    IF needs_confirmation THEN {"yes", "no"} ELSE {"not asked"}

\* the loop going on to execute_command whatever the answer
ShouldExecute_whatever(needs_confirmation, answer) == TRUE

\* cli.py, main: whether the loop goes on to execute_command
\*   if result["needs_confirmation"]: execute = Confirm.ask(...); if not execute: continue
ShouldExecute(needs_confirmation, answer) ==
    ~needs_confirmation \/ answer = "yes"

\* an event of one of the connected browser clients is served by the one
\* GradioInterface
ServesClient ==
    \E c \in client.connected : client' = [connected |-> client.connected, acting |-> c]

\* cli.py, main: one turn of the loop for an input that is no special command
CliRequest ==
    /\ ui = "cli"
    /\ \E llm \in LLMOutcomes :
        \E v \in validate_command(llm.reply),
           g \in {generate_command(llm_provider, chat, UserRequest,
                                    conversation_history, llm)} :
         \E pr \in {process_request(g.history, max_history, auto_execute,
                                    UserRequest, llm, v)} :
          LET call == LLMCall(UserRequest, conversation_history, llm)
          IN /\ Len(pr.history) <= MaxTurns
             /\ Generates(g)
             /\ conversation_history' = pr.history
             /\ result' = pr.result
             /\ IF HasError(pr.result) \/ HasClarification(pr.result)
                THEN ExecutesNothing("cli request", pr, v, "not asked", call)
                ELSE \E answer \in Answers(pr.result.needs_confirmation) :
                        IF ShouldExecute(pr.result.needs_confirmation, answer)
                        THEN Executes("cli request", pr, pr.result.command, answer, call)
                        ELSE ExecutesNothing("cli request", pr, v, answer, call)
    /\ UNCHANGED <<settings_vars, host_vars, storage_vars, last_uploaded_path, command, appended, returned, audit, client>>

\* cli.py, handle_special_commands: "reset"
CliReset ==
    /\ ui = "cli"
    /\ conversation_history' = reset_conversation
    /\ Idle("cli reset")
    /\ UNCHANGED <<settings_vars, host_vars, storage_vars, last_uploaded_path, command, appended, returned, audit, chat, client>>

\* agent.py (not in the sources at hand): start_new_session(), called by
\* process_message for a new upload.  Whether it keeps the turns is not fixed
\* by the specification, so both are allowed.
start_new_session(h) == {h, <<>>}

\* gradio_app.py, process_message: from the request on, with the message text,
\* the history h and the storage as the upload step left them
WebRequest(text, h, working, original) ==
    \E llm \in LLMOutcomes :
      \E v \in validate_command(llm.reply),
         g \in {generate_command(llm_provider, chat, text, h, llm)} :
        \E pr \in {process_request(g.history, max_history, auto_execute, text, llm, v)} :
          LET call == LLMCall(text, h, llm)
          IN /\ Len(pr.history) <= MaxTurns
             /\ Generates(g)
             /\ conversation_history' = pr.history
             /\ result' = pr.result
             /\ working_image' = working
             /\ original_upload' = original
             /\ IF \/ pr.result.clarification # AbsentText
                   \/ HasError(pr.result)
                   \/ pr.result.command = NoneText \/ pr.result.command = <<>>
                THEN /\ ExecutesNothing("web message", pr, v, "not asked", call)
                     /\ UNCHANGED pending_output
                ELSE \* "Always auto-execute the command"
                     \E working_command \in
                           {substitute_working_image(pr.result.command, working, original)} :
                        /\ Executes("web message", pr, working_command, "not asked", call)
                        /\ pending_output' =
                              (IF exec_result'.success /\ exec_result'.output_file # NoneText
                               THEN exec_result'.output_file
                               ELSE pending_output)

\* gradio_app.py, process_message(message, chat_history, uploaded_image)
WebMessage ==
    /\ ui = "web"
    /\ ServesClient
    /\ \E message \in {UserRequest, BlankInput}, uploaded \in {NoneText, UploadedImage} :
          IF Strip(message) = <<>>
          THEN \* an empty message: nothing happens
               /\ Idle("web message")
               /\ UNCHANGED <<conversation_history, storage_vars, last_uploaded_path, chat>>
          ELSE IF uploaded # NoneText /\ uploaded # last_uploaded_path
          THEN \* a new upload
               \/ \* save_uploaded_file raised: the error is shown
                  /\ Idle("web message")
                  /\ UNCHANGED <<conversation_history, storage_vars, last_uploaded_path, chat>>
               \/ \E h \in start_new_session(conversation_history) :
                    /\ last_uploaded_path' = uploaded
                    /\ WebRequest(UploadMessage(message, PathName(SavedPath(uploaded))), h,
                                  SavedPath(uploaded), SavedPath(uploaded))
          ELSE /\ UNCHANGED last_uploaded_path
               /\ WebRequest(message, conversation_history,
                             get_current_working_image(working_image), original_upload)
    /\ UNCHANGED <<settings_vars, host_vars, command, appended, returned, audit>>

\* accept_result without the context turn
WebAccept_without_context ==
    /\ ui = "web"
    /\ ServesClient
    /\ IF ~has_pending_output(pending_output)
       THEN /\ UNCHANGED <<conversation_history, storage_vars>>
            /\ Idle("web accept refused")
       ELSE /\ Len(conversation_history) < MaxTurns
            /\ working_image' = pending_output
            /\ pending_output' = NoneText
            /\ UNCHANGED <<conversation_history, original_upload>>
            /\ Idle("web accept")
    /\ UNCHANGED <<settings_vars, host_vars, last_uploaded_path, command, appended, returned, audit, chat>>

\* gradio_app.py, accept_result(chat_history)
WebAccept ==
    /\ ui = "web"
    /\ ServesClient
    /\ IF ~has_pending_output(pending_output)
       THEN \* "No result to accept."
            /\ UNCHANGED <<conversation_history, storage_vars>>
            /\ Idle("web accept refused")
       ELSE \* storage.accept_output(), then the context turn
            /\ Len(conversation_history) < MaxTurns
            /\ working_image' = pending_output
            /\ pending_output' = NoneText
            /\ conversation_history' =
                  Append(conversation_history,
                         Turn("user", ContextMessage(PathName(pending_output))))
            /\ UNCHANGED original_upload
            /\ Idle("web accept")
    /\ UNCHANGED <<settings_vars, host_vars, last_uploaded_path, command, appended, returned, audit, chat>>

\* refine_result forgetting the working image with the pending output
WebRefine_forgetting_input ==
    /\ ui = "web"
    /\ ServesClient
    /\ IF ~has_pending_output(pending_output)
       THEN /\ UNCHANGED <<pending_output, working_image>>
            /\ Idle("web refine refused")
       ELSE /\ pending_output' = NoneText
            /\ working_image' = NoneText
            /\ Idle("web refine")
    /\ UNCHANGED <<settings_vars, host_vars, conversation_history, original_upload,
                   last_uploaded_path, command, appended, returned, audit, chat>>

\* gradio_app.py, refine_result(chat_history)
WebRefine ==
    /\ ui = "web"
    /\ ServesClient
    /\ IF ~has_pending_output(pending_output)
       THEN \* "No result to refine."
            /\ UNCHANGED pending_output
            /\ Idle("web refine refused")
       ELSE \* self.storage.pending_output = None
            /\ pending_output' = NoneText
            /\ Idle("web refine")
    /\ UNCHANGED <<settings_vars, host_vars, conversation_history, working_image, original_upload,
                   last_uploaded_path, command, appended, returned, audit, chat>>

\* reset_conversation without the storage.reset()
WebReset_keeping_storage ==
    /\ ui = "web"
    /\ ServesClient
    /\ conversation_history' = reset_conversation
    /\ last_uploaded_path' = NoneText
    /\ Idle("web reset")
    /\ UNCHANGED <<settings_vars, host_vars, storage_vars, command, appended, returned, audit, chat>>

\* gradio_app.py, reset_conversation(): the agent's history, the storage
\* (storage.reset()) and the upload marker
WebReset ==
    /\ ui = "web"
    /\ ServesClient
    /\ conversation_history' = reset_conversation
    /\ working_image' = NoneText
    /\ original_upload' = NoneText
    /\ pending_output' = NoneText
    /\ last_uploaded_path' = NoneText
    /\ Idle("web reset")
    /\ UNCHANGED <<settings_vars, host_vars, command, appended, returned, audit, chat>>

Next == CliRequest \/ CliReset \/ WebMessage \/ WebAccept \/ WebRefine \/ WebReset

Spec == Init /\ [][Next]_vars

-----------------------------------------------------------------------------
(* Properties of a session *)

\* the handler that ran last called process_request, and the model answered
Requested == calls.llm.called
Answered  == calls.llm.called /\ ~calls.llm.raised

C6_HistoryBounded ==
    Len(conversation_history) <= 2 * max_history

\* C8: when generate_command raises, process_request returns the error
\* "LLM error: <detail>" with command = None and needs_confirmation = False,
\* and the conversation history is what it was before the call.
C8_LLMFailureLeavesHistory ==
    (Requested /\ calls.llm.raised) =>
        /\ result.error = [text |-> "LLM error", reason |-> NoReason,
                           detail |-> <<"<APIError>">>]
        /\ result.command = NoneText
        /\ ~result.needs_confirmation
        /\ conversation_history = calls.llm.history

\* C8, witness: the model raised in a session that had two turns, and the two
\* turns are still the history.
C8_Witness ==
    /\ Requested
    /\ calls.llm.raised
    /\ result.error.text = "LLM error"
    /\ Len(calls.llm.history) = 2
    /\ conversation_history = calls.llm.history

\* C9: whenever the call of the model succeeds, process_request appends two
\* turns, the user input as a "user" turn and then the raw reply as an
\* "assistant" turn, whether the reply is then taken as a clarification, as a
\* rejected command or as a valid command: the history ends with these two
\* turns, before them come the latest turns of the history before the call, and
\* all of them where 2 * max_history leaves room.
C9_TwoTurnsAppended ==
    Answered =>
        LET before == calls.llm.history
            turns  == << [role |-> "user", content |-> calls.llm.message],
                         [role |-> "assistant", content |-> calls.llm.reply] >>
        IN /\ \E k \in 0..Len(before) :
                 conversation_history = SubSeq(before, k + 1, Len(before)) \o turns
           /\ Len(before) + 2 <= 2 * max_history
                 => conversation_history = before \o turns

\* C9, witness: a reply taken as a clarification was appended, with the user
\* input before it, to a history that had two turns.
C9_Witness ==
    /\ Answered
    /\ result.clarification = <<"W","h","i","c","h"," ","s","i","z","e">>
    /\ Len(calls.llm.history) = 2
    /\ Len(conversation_history) = 4
    /\ conversation_history[4] =
          [role |-> "assistant", content |-> <<"W","h","i","c","h"," ","s","i","z","e">>]

\* the reply in lower case holds one of the indicators
HoldsIndicator(reply) ==
    \E i, j \in 1..Len(reply) :
        /\ i <= j
        /\ [k \in 1..(j - i + 1) |-> LowerChar(reply[i + k - 1])] \in
              { <<"?">>,
                <<"c","o","u","l","d"," ","y","o","u">>,
                <<"p","l","e","a","s","e"," ","s","p","e","c","i","f","y">>,
                <<"w","h","i","c","h">>,
                <<"w","h","a","t">>,
                <<"u","n","c","l","e","a","r">> }

\* C10: when the reply of the model holds, in whatever case, one of the
\* indicators ?, could you, please specify, which, what, unclear,
\* process_request returns a clarification that is the reply, with
\* command = None and needs_confirmation = False, and neither validate_command
\* nor an execution is invoked for that reply.
C10_ClarificationNotValidated ==
    (Answered /\ HoldsIndicator(calls.llm.reply)) =>
        /\ result.clarification = calls.llm.reply
        /\ result.command = NoneText
        /\ ~result.needs_confirmation
        /\ calls.validated = <<>>
        /\ calls.executed = <<>>
        /\ spawned = NoneText

\* C10, witness: the reply "Which size", with its capital letter, came back as
\* a clarification and was not validated.
C10_Witness ==
    /\ Answered
    /\ calls.llm.reply = <<"W","h","i","c","h"," ","s","i","z","e">>
    /\ result.clarification = calls.llm.reply
    /\ validation = NoValidation
    /\ calls.validated = <<>>

\* C11: when the reply is no clarification and passes validate_command,
\* process_request returns the reply unchanged as command, error = None and
\* needs_confirmation = not settings.auto_execute: True in confirmation mode,
\* False in auto-execute mode.
C11_ValidCommandReturned ==
    ( /\ Answered
      /\ ~HoldsIndicator(calls.llm.reply)
      /\ \E v \in validate_command(calls.llm.reply) : v.is_valid )
    => /\ result.command = calls.llm.reply
       /\ result.error = [text |-> "None", reason |-> NoReason, detail |-> <<>>]
       /\ result.clarification = <<"absent">>
       /\ result.needs_confirmation = ~auto_execute
       /\ (auto_execute => ~result.needs_confirmation)
       /\ (~auto_execute => result.needs_confirmation)

\* C11, witness: in auto-execute mode a valid command came back with
\* needs_confirmation = False and no error.
C11_Witness ==
    /\ Answered
    /\ auto_execute
    /\ calls.llm.reply = <<"m","a","g","i","c","k"," ","a",".","j","p","g"," ",
                           "o","/","b",".","p","n","g">>
    /\ result.command = calls.llm.reply
    /\ ~result.needs_confirmation
    /\ result.error.text = "None"

\* C12: when the reply is no clarification and fails validate_command,
\* process_request returns the error "Generated invalid command: <reason>"
\* with the validator's reason, the rejected reply as command and
\* needs_confirmation = False, and nothing is executed.
C12_InvalidCommandReported ==
    ( /\ Answered
      /\ ~HoldsIndicator(calls.llm.reply)
      /\ \A v \in validate_command(calls.llm.reply) : ~v.is_valid )
    => /\ result.error.text = "Generated invalid command"
       /\ \E v \in validate_command(calls.llm.reply) : result.error.reason = v.reason
       /\ result.command = calls.llm.reply
       /\ ~result.needs_confirmation
       /\ calls.executed = <<>>
       /\ spawned = NoneText
       /\ exec_result = NoExecution

\* C12, witness: the reply "rm a.jpg" came back as an invalid command whose
\* reason names rm, and was not executed.
C12_Witness ==
    /\ Answered
    /\ calls.llm.reply = <<"r","m"," ","a",".","j","p","g">>
    /\ result.command = <<"r","m"," ","a",".","j","p","g">>
    /\ result.error.text = "Generated invalid command"
    /\ result.error.reason.kind = "not allowed"
    /\ result.error.reason.token = <<"r","m">>
    /\ calls.executed = <<>>

C20_RefineClearsPendingOnly ==
    [][ /\ calls'.op = "web refine" =>
             /\ pending_output # NoneText
             /\ pending_output' = NoneText
             /\ working_image' = working_image
             /\ conversation_history' = conversation_history
        /\ calls'.op = "web refine refused" =>
             /\ pending_output = NoneText
             /\ UNCHANGED <<conversation_history, working_image, original_upload,
                            pending_output, last_uploaded_path, max_history, auto_execute>>
      ]_vars

\* C20, witness: a refine went through in a session with an uploaded working
\* image: nothing is pending, and image and conversation are still there.
C20_Witness ==
    /\ calls.op = "web refine"
    /\ pending_output = NoneText
    /\ working_image = <<"u","/","a",".","j","p","g">>
    /\ Len(conversation_history) = 2

\* C21: a reset, in the command line and in the web interface, whatever the
\* session holds, leaves the conversation empty, no working image and no
\* pending output; the request that follows a reset hands the model an empty
\* history.
C21_ResetClearsSession ==
    [][ /\ calls'.op \in {"cli reset", "web reset"} =>
             /\ conversation_history' = <<>>
             /\ working_image' = NoneText
             /\ pending_output' = NoneText
        /\ ( /\ calls.op \in {"cli reset", "web reset"}
             /\ calls'.llm.called )
             => calls'.llm.history = <<>>
      ]_vars

\* C21, witness: the reset handler of the web interface ran last, and the
\* session holds no turn, no working image, no pending output and no upload
\* marker.
C21_Witness ==
    /\ calls.op = "web reset"
    /\ conversation_history = <<>>
    /\ working_image = NoneText
    /\ pending_output = NoneText
    /\ last_uploaded_path = NoneText

\* C28: whenever the model is called, the stored history followed by the new
\* user message alternates strictly between user and assistant turns and
\* begins with a user turn: the stored history has even length and holds no
\* two consecutive turns of the same role.
C28_TurnsAlternate ==
    Requested =>
        LET turns == calls.llm.history \o <<[role |-> "user", content |-> calls.llm.message]>>
        IN /\ Len(calls.llm.history) % 2 = 0
           /\ \A i \in 1..Len(turns) :
                 turns[i].role = (IF i % 2 = 1 THEN "user" ELSE "assistant")
           /\ \A i \in 1..(Len(calls.llm.history) - 1) :
                 calls.llm.history[i].role # calls.llm.history[i + 1].role

-----------------------------------------------------------------------------
(* A session with each of the three provider clients *)

InitProviders ==
    /\ llm_provider \in Providers
    /\ ui \in {"cli", "web"}
    /\ max_history \in 0..MaxHistorySetting
    /\ auto_execute = TRUE
    /\ conversation_history = <<>>
    /\ working_image = NoneText
    /\ original_upload = NoneText
    /\ pending_output = NoneText
    /\ last_uploaded_path = NoneText
    /\ command = NoneText
    /\ result = NoResult
    /\ validation = NoValidation
    /\ exec_result = NoExecution
    /\ spawned = NoneText
    /\ calls = NoCalls
    /\ appended = <<>>
    /\ returned = NoneText
    /\ audit = NoAudit
    /\ installed = {"magick"}
    /\ executor = CommandExecutor(installed)
    /\ chat = NoChat
    /\ context = NoContext
    /\ client = OneClient
    /\ log_files = NoLogFiles

SpecProviders == InitProviders /\ [][Next]_vars

\* the conversation a provider was sent: its messages without the system
\* prompt, each as a turn of the session (a Gemini message of role "model"
\* is an assistant turn, and its content is its one part)
ConversationSent(messages) ==
    LET NotSystem(msg) == msg.role # "system"
        sent == SelectSeq(messages, NotSystem)
    IN [i \in 1..Len(sent) |->
          IF "parts" \in DOMAIN sent[i]
          THEN [role |-> IF sent[i].role = "model" THEN "assistant" ELSE sent[i].role,
                content |-> sent[i].parts[1]]
          ELSE [role |-> sent[i].role, content |-> sent[i].content]]

\* C29: with each of the three provider clients, the conversation the
\* provider receives on a request is the turns the session holds at that
\* moment followed by the new user message, also after the history was
\* trimmed and after an accept added a context turn.
C29_ProviderReceivesSessionTurns ==
    Requested =>
        ConversationSent(context) =
            calls.llm.history \o <<[role |-> "user", content |-> calls.llm.message]>>

-----------------------------------------------------------------------------
(* The web interface with two browser clients *)

InitClients ==
    /\ client = [connected |-> {1, 2}, acting |-> 1]
    /\ ui = "web"
    /\ max_history \in 0..MaxHistorySetting
    /\ auto_execute = FALSE
    /\ llm_provider = "anthropic"
    /\ conversation_history = <<>>
    /\ working_image = NoneText
    /\ original_upload = NoneText
    /\ pending_output = NoneText
    /\ last_uploaded_path = NoneText
    /\ command = NoneText
    /\ result = NoResult
    /\ validation = NoValidation
    /\ exec_result = NoExecution
    /\ spawned = NoneText
    /\ calls = NoCalls
    /\ appended = <<>>
    /\ returned = NoneText
    /\ audit = NoAudit
    /\ installed = {"magick"}
    /\ executor = CommandExecutor(installed)
    /\ chat = NoChat
    /\ context = NoContext
    /\ log_files = NoLogFiles

NextClients == WebMessage \/ WebAccept \/ WebRefine \/ WebReset

SpecClients == InitClients /\ [][NextClients]_vars

\* The session state the handlers read and write when they serve client c:
\* launch() constructs one GradioInterface, its handlers are bound methods of
\* that object, and they use self.agent, self.storage and
\* self.last_uploaded_path whichever client sent the event.
SessionOf(c) ==
    [turns |-> conversation_history,
     working_image |-> working_image,
     pending_output |-> pending_output,
     last_uploaded_path |-> last_uploaded_path]

\* C24: clients of the web interface share no mutable session state: a
\* handler that serves one client changes neither the conversation turns nor
\* the working image nor the pending output that the handlers serving another
\* client read.
C24_ClientsShareNoState ==
    [][ \A c \in client.connected :
           c # client'.acting => SessionOf(c)' = SessionOf(c) ]_vars

-----------------------------------------------------------------------------
(* process_message's substitution of the working image, applied to one       *)
(* generated command                                                         *)

\* the tokens generated commands are built from
SubstWords ==
    { <<"m","a","g","i","c","k">>,
      <<"i","n","p","u","t",".","j","p","g">>,
      <<"i","m","a","g","e",".","p","n","g">>,
      <<"a",".","j","p","g">>,
      <<"u","/","a",".","j","p","g">>,
      <<"b",".","p","n","g">>,
      <<"o",".","p","n","g">> }

SubstCommands ==
    {Join(ts) : ts \in UNION {[1..k -> SubstWords] : k \in 1..MaxTokens}}

\* the storage when the command arrives: nothing uploaded; a.jpg uploaded and
\* saved as u/a.jpg; the output b.png accepted after that upload
SubstStorages ==
    { [working |-> NoneText, original |-> NoneText],
      [working |-> SavedPath(UploadedImage), original |-> SavedPath(UploadedImage)],
      [working |-> <<"b",".","p","n","g">>, original |-> SavedPath(UploadedImage)] }

InitSubst ==
    /\ command \in SubstCommands
    /\ \E st \in SubstStorages :
          /\ working_image = st.working
          /\ original_upload = st.original
    /\ ui = "web"
    /\ max_history = 0
    /\ auto_execute = FALSE
    /\ conversation_history = <<>>
    /\ pending_output = NoneText
    /\ last_uploaded_path = NoneText
    /\ result = NoResult
    /\ validation = NoValidation
    /\ exec_result = NoExecution
    /\ spawned = NoneText
    /\ calls = NoCalls
    /\ appended = <<>>
    /\ returned = NoneText
    /\ audit = NoAudit
    /\ installed = {"magick"}
    /\ executor = CommandExecutor(installed)
    /\ llm_provider = "anthropic"
    /\ chat = NoChat
    /\ context = NoContext
    /\ client = OneClient
    /\ log_files = NoLogFiles

\* gradio_app.py, process_message: working_command, from the generated command
Substitute ==
    /\ calls.op = "none"
    /\ returned' = substitute_working_image(command,
                        get_current_working_image(working_image), original_upload)
    /\ calls' = Calls("substitute", <<>>, <<>>, "not asked", NoLLMCall)
    /\ UNCHANGED <<session_vars, command, validation, exec_result, spawned, audit>>

NextSubst == Substitute

SpecSubst == InitSubst /\ [][NextSubst]_vars

\* the directory prefix of a path: what stands before its final segment
DirectoryPrefix(t) == SubSeq(t, 1, Len(t) - Len(FinalSegment(t)))

\* C30: when the working image has a directory, the command handed to
\* execute_command names it by exactly its full path: a token that is a
\* placeholder (input.jpg, input.png, image.jpg, image.png) or the bare file
\* name of the working image has become the path of the working image, and the
\* directory prefix of that path never stands twice before the file name.
C30_WorkingImageByFullPath ==
    (calls.op = "substitute" /\ HasDirectory(working_image)) =>
        LET parts == Split(command)
            out   == Split(returned)
        IN /\ Len(out) = Len(parts)
           /\ \A i \in 1..Len(parts) :
                 parts[i] \in { <<"i","n","p","u","t",".","j","p","g">>,
                                <<"i","n","p","u","t",".","p","n","g">>,
                                <<"i","m","a","g","e",".","j","p","g">>,
                                <<"i","m","a","g","e",".","p","n","g">>,
                                FinalSegment(working_image) }
                    => out[i] = working_image
           /\ ~Contains(returned, DirectoryPrefix(working_image) \o working_image)

-----------------------------------------------------------------------------
(* log_reader.py: LogReader on the two log files *)

\* A line of a log file: json tells whether json.loads accepts it; an accepted
\* line is an entry with a timestamp and a success field.
LogLine(json, timestamp, success) ==
    [json |-> json, timestamp |-> timestamp, success |-> success]

\* what was written to the logs, in the order of writing: for each line the
\* file it went to and what it holds
LogWrites ==
    {"llm", "exec"} \X {"success", "failure", "malformed"}

\* the lines of file among the writes from the i-th on; a line's timestamp is
\* the time of its writing
RECURSIVE LinesOf(_, _, _)
LinesOf(writes, i, file) ==
    IF i > Len(writes) THEN <<>>
    ELSE IF writes[i][1] # file THEN LinesOf(writes, i + 1, file)
    ELSE <<LogLine(writes[i][2] # "malformed", i, writes[i][2] = "success")>>
            \o LinesOf(writes, i + 1, file)

\* limit, and the success filter (given: success is not None)
Limits == 1..(MaxLogLines - 1)
SuccessFilters ==
    {[given |-> FALSE, value |-> FALSE], [given |-> TRUE, value |-> FALSE],
     [given |-> TRUE, value |-> TRUE]}

\* log = json.loads(line.strip()), with log_type as get_unified_logs sets it
LogOf(line, log_type) ==
    [timestamp |-> line.timestamp, success |-> line.success, log_type |-> log_type]

\* with open(file) as f: for line in f: ... logs.append(log);
\* if len(logs) >= limit: break
RECURSIVE ReadLog(_, _, _, _)
ReadLog(lines, limit, success, logs) ==
    IF lines = <<>> THEN logs
    ELSE IF ~Head(lines).json
         THEN \* except json.JSONDecodeError: continue
              ReadLog(Tail(lines), limit, success, logs)
    ELSE IF success.given /\ Head(lines).success # success.value
         THEN ReadLog(Tail(lines), limit, success, logs)
    ELSE LET grown == Append(logs, LogOf(Head(lines), "None"))
         IN IF Len(grown) >= limit THEN grown
            ELSE ReadLog(Tail(lines), limit, success, grown)

\* logs.reverse()
Reverse(s) == [i \in 1..Len(s) |-> s[Len(s) + 1 - i]]

\* get_llm_calls(limit, success=...), with no provider and no session filter
get_llm_calls(files, limit, success) == Reverse(ReadLog(files.llm, limit, success, <<>>))

\* get_executions(limit, success=...), with no session filter
get_executions(files, limit, success) == Reverse(ReadLog(files.exec, limit, success, <<>>))

\* all_logs.sort(key=timestamp, reverse=True): a stable sort
RECURSIVE SortedLatestFirst(_)
SortedLatestFirst(logs) ==
    IF logs = <<>> THEN <<>>
    ELSE LET k == CHOOSE k \in 1..Len(logs) :
                     /\ \A j \in 1..Len(logs) : logs[j].timestamp <= logs[k].timestamp
                     /\ \A j \in 1..(k - 1) : logs[j].timestamp < logs[k].timestamp
         IN <<logs[k]>> \o SortedLatestFirst(SubSeq(logs, 1, k - 1) \o
                                              SubSeq(logs, k + 1, Len(logs)))

\* the entries of a whole file, malformed lines skipped
ParsedLog(lines, log_type) ==
    LET Accepted(line) == line.json
        parsed == SelectSeq(lines, Accepted)
    IN [i \in 1..Len(parsed) |-> LogOf(parsed[i], log_type)]

\* get_unified_logs(limit), with no session filter
get_unified_logs(files, limit) ==
    Take(SortedLatestFirst(ParsedLog(files.llm, "llm") \o ParsedLog(files.exec, "execution")),
         limit)

InitReader ==
    /\ \E writes \in UNION {[1..k -> LogWrites] : k \in 0..MaxLogLines} :
          log_files = [llm |-> LinesOf(writes, 1, "llm"), exec |-> LinesOf(writes, 1, "exec")]
    /\ command = NoneText
    /\ ui = "web"
    /\ max_history = 0
    /\ auto_execute = FALSE
    /\ conversation_history = <<>>
    /\ working_image = NoneText
    /\ original_upload = NoneText
    /\ pending_output = NoneText
    /\ last_uploaded_path = NoneText
    /\ result = NoResult
    /\ validation = NoValidation
    /\ exec_result = NoExecution
    /\ spawned = NoneText
    /\ calls = NoCalls
    /\ appended = <<>>
    /\ returned = NoneText
    /\ audit = NoAudit
    /\ installed = {"magick"}
    /\ executor = CommandExecutor(installed)
    /\ llm_provider = "anthropic"
    /\ chat = NoChat
    /\ context = NoContext
    /\ client = OneClient

\* what a reader call returned, with its arguments
Read(limit, success, logs) == [limit |-> limit, success |-> success, logs |-> logs]

\* LogReader.get_llm_calls(limit, success=success)
GetLlmCalls ==
    /\ calls.op = "none"
    /\ \E limit \in Limits, success \in SuccessFilters :
          returned' = Read(limit, success, get_llm_calls(log_files, limit, success))
    /\ calls' = Calls("get_llm_calls", <<>>, <<>>, "not asked", NoLLMCall)
    /\ UNCHANGED <<session_vars, command, validation, exec_result, spawned, audit>>

\* LogReader.get_executions(limit, success=success)
GetExecutions ==
    /\ calls.op = "none"
    /\ \E limit \in Limits, success \in SuccessFilters :
          returned' = Read(limit, success, get_executions(log_files, limit, success))
    /\ calls' = Calls("get_executions", <<>>, <<>>, "not asked", NoLLMCall)
    /\ UNCHANGED <<session_vars, command, validation, exec_result, spawned, audit>>

\* LogReader.get_unified_logs(limit)
GetUnifiedLogs ==
    /\ calls.op = "none"
    /\ \E limit \in Limits :
          returned' = Read(limit, [given |-> FALSE, value |-> FALSE],
                           get_unified_logs(log_files, limit))
    /\ calls' = Calls("get_unified_logs", <<>>, <<>>, "not asked", NoLLMCall)
    /\ UNCHANGED <<session_vars, command, validation, exec_result, spawned, audit>>

NextReader == GetLlmCalls \/ GetExecutions \/ GetUnifiedLogs

SpecReader == InitReader /\ [][NextReader]_vars

\* the timestamps of the entries of lines that pass the filter, latest first
MatchingLatestFirst(lines, success) ==
    LET Matches(line) ==
            line.json /\ (success.given => line.success = success.value)
        matching == SelectSeq(lines, Matches)
    IN [i \in 1..Len(matching) |-> matching[Len(matching) + 1 - i].timestamp]

\* C25: get_llm_calls and get_executions with limit n return the n most recent
\* entries that pass the filter, most recent first (all of them when there are
\* no more than n), which is the selection get_unified_logs makes over both
\* files.
C25_MostRecentEntriesReturned ==
    LET got == [i \in 1..Len(returned.logs) |-> returned.logs[i].timestamp]
    IN /\ calls.op = "get_llm_calls" =>
             \E all \in {MatchingLatestFirst(log_files.llm, returned.success)} :
                got = SubSeq(all, 1, IF Len(all) < returned.limit THEN Len(all)
                                     ELSE returned.limit)
       /\ calls.op = "get_executions" =>
             \E all \in {MatchingLatestFirst(log_files.exec, returned.success)} :
                got = SubSeq(all, 1, IF Len(all) < returned.limit THEN Len(all)
                                     ELSE returned.limit)
       /\ calls.op = "get_unified_logs" =>
             /\ \A i \in 1..(Len(got) - 1) : got[i] > got[i + 1]
             /\ \A line \in {log_files.llm[i] : i \in 1..Len(log_files.llm)} \cup
                              {log_files.exec[i] : i \in 1..Len(log_files.exec)} :
                   ( /\ line.json
                     /\ \A i \in 1..Len(got) : got[i] # line.timestamp )
                   => /\ Len(got) = returned.limit
                      /\ \A i \in 1..Len(got) : got[i] > line.timestamp

-----------------------------------------------------------------------------
(* _add_to_history applied turn after turn to the history of a new agent *)

\* the turns that are appended
TurnsToAdd ==
    { Turn("user", UserRequest),
      Turn("assistant", <<"W","h","i","c","h"," ","s","i","z","e">>),
      Turn("assistant", <<"r","m"," ","a",".","j","p","g">>) }

InitHistory ==
    /\ ui = "none"
    /\ max_history \in 0..MaxHistorySetting
    /\ auto_execute = FALSE
    /\ conversation_history = <<>>
    /\ working_image = NoneText
    /\ original_upload = NoneText
    /\ pending_output = NoneText
    /\ last_uploaded_path = NoneText
    /\ command = NoneText
    /\ result = NoResult
    /\ validation = NoValidation
    /\ exec_result = NoExecution
    /\ spawned = NoneText
    /\ calls = NoCalls
    /\ appended = <<>>
    /\ returned = NoneText
    /\ audit = NoAudit
    /\ installed = {"magick"}
    /\ executor = CommandExecutor(installed)
    /\ llm_provider = "anthropic"
    /\ chat = NoChat
    /\ context = NoContext
    /\ client = OneClient
    /\ log_files = NoLogFiles

\* _add_to_history(role, content)
AddToHistory ==
    /\ Len(appended) < 2 * MaxHistorySetting + 2
    /\ \E t \in TurnsToAdd :
          /\ conversation_history' =
                add_to_history(conversation_history, max_history, t.role, t.content)
          /\ appended' = Append(appended, t)
    /\ UNCHANGED <<settings_vars, host_vars, storage_vars, last_uploaded_path, command, result,
                   validation, exec_result, spawned, calls, returned, audit, chat, context, client>>

NextHistory == AddToHistory

SpecHistory == InitHistory /\ [][NextHistory]_vars

\* C7: after 2 * max_history + 2 turns have been appended with _add_to_history
\* to an empty history, the history holds 2 * max_history turns, and they are
\* the 2 * max_history turns appended last, in the order they were appended.
C7_LatestTurnsKept ==
    Len(appended) = 2 * max_history + 2 =>
        /\ Len(conversation_history) = 2 * max_history
        /\ \A i \in 1..(2 * max_history) : conversation_history[i] = appended[i + 2]

=============================================================================
